---- MODULE Spec2Model ----
(***************************************************************************)
(* Command Manager message parser (src/CommandManager.cpp).                *)
(*                                                                         *)
(* A std::string is a sequence of one-character strings, so that substr,   *)
(* back, pop_back, getline, stoi, stod and operator<< are computed         *)
(* character by character as the library computes them.  std::cout is the  *)
(* sequence `out` of the lines written by the current parseCommand call    *)
(* (every write of the program ends in "\n").                              *)
(***************************************************************************)
EXTENDS Integers, Sequences, FiniteSets, TLC

VARIABLES
    strHistory,   \* main's std::deque<std::string> strHistory, front first
    strInput,     \* parseCommand's parameter; <<>> outside a call
    histBefore,   \* strHistory as it was when the current call was entered
    out,          \* lines written to std::cout by the current call
    log,          \* the data messages sent so far by the scripted driver
    pc            \* "read" | "entry" | "returned" | "thrown" | "exit"

vars == <<strHistory, strInput, histBefore, out, log, pc>>

----------------------------------------------------------------------------
(* Bounds of the model *)

\* longest payload (characters after the prefix) of the interactive inputs
MaxPayloadLen == 2
\* number of data messages the scripted driver sends
MaxData == 6
\* longest digit run of the integer payloads
MaxDigits == 2
\* number of comma-separated fields of the D_USR_FLD_ payloads
MaxFields == 4
\* width of the platform int, in bits
IntBits == 6

----------------------------------------------------------------------------
(* String literals of the source *)

RUN_NO == <<"R","U","N","_","N","O","_","_","_","_">>
POLAR_NO == <<"P","O","L","A","R","_","N","O","_","_">>
USR_MSG == <<"U","S","R","_","M","S","G","_","_","_">>
D_USR_FLD == <<"D","_","U","S","R","_","F","L","D","_">>
HISTORY == <<"H","I","S","T","O","R","Y","_","_","_">>
EXIT == <<"E","X","I","T">>

S_RunNumber == <<"R","u","n"," ","n","u","m","b","e","r",":"," ">>
S_InvalidRun ==
    <<"I","n","v","a","l","i","d"," ","R","u","n"," ","n","u","m","b","e","r",":"," ">>
S_PolarNumber == <<"P","o","l","a","r"," ","n","u","m","b","e","r",":"," ">>
S_InvalidPolar ==
    <<"I","n","v","a","l","i","d"," ","P","o","l","a","r"," ",
      "n","u","m","b","e","r",":"," ">>
S_Parameters == <<"P","a","r","a","m","e","t","e","r","s",":">>
S_NameTooLong ==
    <<"P","a","r","a","m","e","t","e","r"," ","n","a","m","e"," ",
      "t","o","o"," ","l","o","n","g",":"," ">>
S_Equals == <<" ","="," ">>
S_InvalidValue ==
    <<"I","n","v","a","l","i","d"," ","p","a","r","a","m","e","t","e","r"," ",
      "v","a","l","u","e"," ","f","o","r"," ",
      "p","a","r","a","m","e","t","e","r",":"," ">>

----------------------------------------------------------------------------
(* std::string and std::deque primitives *)

\* s.back()
back(s) == s[Len(s)]

\* s.pop_back()
pop_back(s) == SubSeq(s, 1, Len(s) - 1)

\* s.substr(pos, n), pos <= s.length(): at most n characters from 0-based pos
substr(s, pos, n) ==
    SubSeq(s, pos + 1, IF pos + n < Len(s) THEN pos + n ELSE Len(s))

\* s.substr(pos), pos <= s.length(): everything from 0-based pos
substrFrom(s, pos) == SubSeq(s, pos + 1, Len(s))

\* d.push_front(x)
push_front(d, x) == <<x>> \o d

----------------------------------------------------------------------------
(* History *)

\* the variant that never evicts
updateHistory_NoEvict(strHistoryIn, strOpCode) == push_front(strHistoryIn, strOpCode)

\* the variant that appends at the back and evicts at the front
updateHistory_PushBack(strHistoryIn, strOpCode) ==
    LET pushed == Append(strHistoryIn, strOpCode)
    IN  IF Len(pushed) > 5 THEN Tail(pushed) ELSE pushed

updateHistory(strHistoryIn, strOpCode) ==
    LET pushed == push_front(strHistoryIn, strOpCode)
    IN  IF Len(pushed) > 5 THEN pop_back(pushed) ELSE pushed

----------------------------------------------------------------------------
(* <cctype>, std::stoi and operator<<(int) *)

\* isspace in the "C" locale (the vertical tab has no TLA+ escape)
isspace(c) == c \in {" ", "\t", "\n", "\r", "\f"}

isdigit(c) == c \in {"0", "1", "2", "3", "4", "5", "6", "7", "8", "9"}

DigitVal(c) ==
    CASE c = "0" -> 0 [] c = "1" -> 1 [] c = "2" -> 2 [] c = "3" -> 3
      [] c = "4" -> 4 [] c = "5" -> 5 [] c = "6" -> 6 [] c = "7" -> 7
      [] c = "8" -> 8 [] c = "9" -> 9

DigitChar(d) == <<"0", "1", "2", "3", "4", "5", "6", "7", "8", "9">>[d + 1]

\* the platform int, two's complement on IntBits bits
INT_MAX == 2 ^ (IntBits - 1) - 1
INT_MIN == -(2 ^ (IntBits - 1))

\* strtol/strtod skip leading white space
RECURSIVE SkipSpace(_)
SkipSpace(s) ==
    IF s # <<>> /\ isspace(Head(s)) THEN SkipSpace(Tail(s)) ELSE s

\* the longest prefix of s made of decimal digits
RECURSIVE DigitRun(_)
DigitRun(s) ==
    IF s # <<>> /\ isdigit(Head(s)) THEN <<Head(s)>> \o DigitRun(Tail(s)) ELSE <<>>

\* the number a digit sequence denotes (0 for the empty sequence)
RECURSIVE DecValue(_)
DecValue(ds) ==
    IF ds = <<>> THEN 0
    ELSE 10 * DecValue(pop_back(ds)) + DigitVal(back(ds))

\* strtol/strtod accept one optional sign
HasSign(s) == s # <<>> /\ Head(s) \in {"+", "-"}
DropSign(s) == IF HasSign(s) THEN Tail(s) ELSE s

\* the variant that wraps a value beyond the int range instead of throwing
stoi_Wrap(s) ==
    LET t  == SkipSpace(s)
        ds == DigitRun(DropSign(t))
        v  == IF HasSign(t) /\ Head(t) = "-" THEN -DecValue(ds) ELSE DecValue(ds)
    IN  IF ds = <<>> THEN [ok |-> FALSE, val |-> 0]
        ELSE [ok |-> TRUE, val |-> ((v - INT_MIN) % (2 ^ IntBits)) + INT_MIN]

\* the variant whose range is symmetric: the most negative int is refused
stoi_SymmetricRange(s) ==
    LET t  == SkipSpace(s)
        ds == DigitRun(DropSign(t))
        v  == IF HasSign(t) /\ Head(t) = "-" THEN -DecValue(ds) ELSE DecValue(ds)
    IN  IF ds = <<>> THEN [ok |-> FALSE, val |-> 0]
        ELSE IF v < -INT_MAX \/ v > INT_MAX THEN [ok |-> FALSE, val |-> 0]
        ELSE [ok |-> TRUE, val |-> v]

\* std::stoi(s): strtol in base 10 on the longest valid prefix.  ok = FALSE
\* stands for the exception thrown: std::invalid_argument when no digit was
\* converted, std::out_of_range when the value does not fit an int.
stoi(s) ==
    LET t  == SkipSpace(s)
        ds == DigitRun(DropSign(t))
        v  == IF HasSign(t) /\ Head(t) = "-" THEN -DecValue(ds) ELSE DecValue(ds)
    IN  IF ds = <<>> THEN [ok |-> FALSE, val |-> 0]
        ELSE IF v < INT_MIN \/ v > INT_MAX THEN [ok |-> FALSE, val |-> 0]
        ELSE [ok |-> TRUE, val |-> v]

\* the decimal digits of a natural number, no leading zero
RECURSIVE NatToString(_)
NatToString(n) ==
    IF n < 10 THEN <<DigitChar(n)>>
    ELSE NatToString(n \div 10) \o <<DigitChar(n % 10)>>

\* std::cout << int
IntToString(n) == IF n < 0 THEN <<"-">> \o NatToString(-n) ELSE NatToString(n)

----------------------------------------------------------------------------
(* std::stod and operator<<(double) *)

\* s without its first n characters
Drop(s, n) == SubSeq(s, n + 1, Len(s))

RECURSIVE Zeros(_)
Zeros(n) == IF n <= 0 THEN <<>> ELSE <<"0">> \o Zeros(n - 1)

\* the exponent part of a strtod subject: e or E, an optional sign and at
\* least one digit; anything else is not part of the number
ExponentOf(s) ==
    IF s # <<>> /\ Head(s) \in {"e", "E"}
    THEN LET t  == Tail(s)
             ds == DigitRun(DropSign(t))
         IN  IF ds = <<>> THEN 0
             ELSE IF HasSign(t) /\ Head(t) = "-" THEN -DecValue(ds)
             ELSE DecValue(ds)
    ELSE 0

\* std::stod(s): strtod on the longest valid prefix of s, decimal form (white
\* space, sign, digits with an optional radix point, optional exponent).  The
\* value is mant * 10^exp.  ok = FALSE stands for std::invalid_argument, thrown
\* when no digit was converted.  The hexadecimal, "inf" and "nan" forms and
\* the std::out_of_range of a value beyond the double range need letters or
\* lengths that no input of this model has.
stod(s) ==
    LET t    == SkipSpace(s)
        u    == DropSign(t)
        ip   == DigitRun(u)
        v    == Drop(u, Len(ip))
        fp   == IF v # <<>> /\ Head(v) = "." THEN DigitRun(Tail(v)) ELSE <<>>
        w    == IF v # <<>> /\ Head(v) = "." THEN Drop(v, 1 + Len(fp)) ELSE v
    IN  IF ip = <<>> /\ fp = <<>>
        THEN [ok |-> FALSE, neg |-> FALSE, mant |-> 0, exp |-> 0]
        ELSE [ok |-> TRUE, neg |-> HasSign(t) /\ Head(t) = "-",
              mant |-> DecValue(ip \o fp), exp |-> ExponentOf(w) - Len(fp)]

\* m * 10^e with the trailing zeros of m moved into e
RECURSIVE StripZeros(_, _)
StripZeros(m, e) ==
    IF m # 0 /\ m % 10 = 0 THEN StripZeros(m \div 10, e + 1) ELSE <<m, e>>

\* m * 10^e rounded to the 6 significant digits of the default precision
Round6(m, e) ==
    LET n == Len(NatToString(m))
    IN  IF n <= 6 THEN <<m, e>>
        ELSE LET k == n - 6
                 q == m \div (10 ^ k)
                 r == m % (10 ^ k)
             IN  <<IF 2 * r >= 10 ^ k THEN q + 1 ELSE q, e + k>>

\* the exponent field of the %e form: a sign and at least two digits
ExpField(x) ==
    LET a == IF x < 0 THEN -x ELSE x
    IN  <<IF x < 0 THEN "-" ELSE "+">>
        \o (IF a < 10 THEN <<"0">> ELSE <<>>) \o NatToString(a)

\* std::cout << double with the stream's defaults (precision 6, no
\* floatfield): printf's %g, that is 6 significant digits, trailing zeros
\* removed, fixed notation when the decimal exponent X of the first digit has
\* -4 <= X < 6 and scientific notation otherwise.
DoubleToString(d) ==
    LET sign == IF d.neg THEN <<"-">> ELSE <<>>
        a    == StripZeros(d.mant, d.exp)
        b    == Round6(a[1], a[2])
        c    == StripZeros(b[1], b[2])
        m    == c[1]
        e    == c[2]
        D    == NatToString(m)
        n    == Len(D)
        X    == n - 1 + e
    IN  IF m = 0 THEN sign \o <<"0">>
        ELSE IF X < -4 \/ X >= 6
        THEN sign \o <<D[1]>> \o (IF n > 1 THEN <<".">> \o Drop(D, 1) ELSE <<>>)
             \o <<"e">> \o ExpField(X)
        ELSE IF e >= 0 THEN sign \o D \o Zeros(e)
        ELSE IF X >= 0 THEN sign \o SubSeq(D, 1, X + 1) \o <<".">> \o Drop(D, X + 1)
        ELSE sign \o <<"0", ".">> \o Zeros(-X - 1) \o D

----------------------------------------------------------------------------
(* parseCommand *)

\* the characters of s before its first ','
RECURSIVE UpToComma(_)
UpToComma(s) ==
    IF s = <<>> \/ Head(s) = "," THEN <<>> ELSE <<Head(s)>> \o UpToComma(Tail(s))

\* the successive strToken values of while (std::getline(ss, strToken, ',')):
\* each call extracts up to and including the next ',' and fails only when
\* nothing is left, so a final ',' produces no empty token after it
RECURSIVE getlineTokens(_)
getlineTokens(s) ==
    IF s = <<>> THEN <<>>
    ELSE LET strToken == UpToComma(s)
         IN  <<strToken>> \o getlineTokens(Drop(s, Len(strToken) + 1))

\* the variant that keeps the empty tokens
Tokenise_KeepEmpty(strMessageContent) == getlineTokens(strMessageContent)

\* vecTokens after the tokenising loop: the non-empty tokens, in order
Tokenise(strMessageContent) ==
    SelectSeq(getlineTokens(strMessageContent), LAMBDA strToken : strToken # <<>>)

\* the variant that does not test the length of the name
PairLine_NoLengthCheck(strName, strValue) ==
    IF stod(strValue).ok
    THEN strName \o S_Equals \o DoubleToString(stod(strValue))
    ELSE S_InvalidValue \o strName

\* the line written for the pair (vecTokens[i], vecTokens[i + 1])
PairLine(strName, strValue) ==
    IF Len(strName) > 15 THEN S_NameTooLong \o strName
    ELSE IF stod(strValue).ok
    THEN strName \o S_Equals \o DoubleToString(stod(strValue))
    ELSE S_InvalidValue \o strName

\* the variant that leaves the loop at the first pair in error
RECURSIVE PairLines_Break(_, _)
PairLines_Break(vecTokens, i) ==
    IF i + 1 < Len(vecTokens)
    THEN IF Len(vecTokens[i + 1]) > 15 \/ ~stod(vecTokens[i + 2]).ok
         THEN <<PairLine(vecTokens[i + 1], vecTokens[i + 2])>>
         ELSE <<PairLine(vecTokens[i + 1], vecTokens[i + 2])>>
              \o PairLines_Break(vecTokens, i + 2)
    ELSE <<>>

\* the lines of for (size_t i = 0; i + 1 < vecTokens.size(); i += 2), from
\* 0-based index i on
RECURSIVE PairLines(_, _)
PairLines(vecTokens, i) ==
    IF i + 1 < Len(vecTokens)
    THEN <<PairLine(vecTokens[i + 1], vecTokens[i + 2])>>
         \o PairLines(vecTokens, i + 2)
    ELSE <<>>

\* Each branch of the opcode chain yields the lines it writes, bRecognised,
\* and whether it returned from parseCommand (skipping the code after the
\* chain).

\* the variant that swallows a failed conversion
IntBranch_Silent(strValid, strInvalid, strMessageContent) ==
    IF stoi(strMessageContent).ok
    THEN [out |-> <<strValid \o IntToString(stoi(strMessageContent).val)>>,
          bRecognised |-> TRUE, returned |-> FALSE]
    ELSE [out |-> <<>>, bRecognised |-> FALSE, returned |-> FALSE]

\* RUN_NO____ and POLAR_NO__: try { stoi; print } catch { print Invalid }
IntBranch(strValid, strInvalid, strMessageContent) ==
    IF stoi(strMessageContent).ok
    THEN [out |-> <<strValid \o IntToString(stoi(strMessageContent).val)>>,
          bRecognised |-> TRUE, returned |-> FALSE]
    ELSE [out |-> <<strInvalid \o strMessageContent>>,
          bRecognised |-> TRUE, returned |-> FALSE]

\* the variant that rejects an empty text
UsrMsgBranch_RejectEmpty(strMessageContent) ==
    IF strMessageContent = <<>>
    THEN [out |-> <<>>, bRecognised |-> FALSE, returned |-> FALSE]
    ELSE [out |-> <<strMessageContent>>, bRecognised |-> TRUE, returned |-> FALSE]

\* USR_MSG___
UsrMsgBranch(strMessageContent) ==
    [out |-> <<strMessageContent>>, bRecognised |-> TRUE, returned |-> FALSE]

\* the variant that goes on after an odd token list
FldBranch_NoReturn(strMessageContent) ==
    LET vecTokens == Tokenise(strMessageContent)
    IN  [out |-> <<S_Parameters>> \o PairLines(vecTokens, 0),
         bRecognised |-> TRUE, returned |-> FALSE]

\* the variant that treats a list without tokens as malformed
FldBranch_EmptyIsError(strMessageContent) ==
    LET vecTokens == Tokenise(strMessageContent)
    IN  IF Len(vecTokens) % 2 # 0 \/ vecTokens = <<>>
        THEN [out |-> <<>>, bRecognised |-> TRUE, returned |-> TRUE]
        ELSE [out |-> <<S_Parameters>> \o PairLines(vecTokens, 0),
              bRecognised |-> TRUE, returned |-> FALSE]

\* D_USR_FLD_
FldBranch(strMessageContent) ==
    LET vecTokens == Tokenise(strMessageContent)
    IN  IF Len(vecTokens) % 2 # 0
        THEN [out |-> <<>>, bRecognised |-> TRUE, returned |-> TRUE]
        ELSE [out |-> <<S_Parameters>> \o PairLines(vecTokens, 0),
              bRecognised |-> TRUE, returned |-> FALSE]

\* the variant that records the query
HistoryBranch_Recorded(strHistoryIn) ==
    [out |-> strHistoryIn, bRecognised |-> TRUE, returned |-> FALSE]

\* the variant that prints oldest first
HistoryBranch_Oldest(strHistoryIn) ==
    [out |-> [i \in 1..Len(strHistoryIn) |-> strHistoryIn[Len(strHistoryIn) + 1 - i]],
     bRecognised |-> FALSE, returned |-> FALSE]

\* HISTORY___: one line per entry, strHistory[0] first
HistoryBranch(strHistoryIn) ==
    [out |-> strHistoryIn, bRecognised |-> FALSE, returned |-> FALSE]

\* the variant that treats every 10-character prefix as a message opcode
Dispatch_AnyOpcode(strOpCode, strMessageContent, strHistoryIn) ==
    IF strOpCode = RUN_NO THEN IntBranch(S_RunNumber, S_InvalidRun, strMessageContent)
    ELSE IF strOpCode = POLAR_NO
    THEN IntBranch(S_PolarNumber, S_InvalidPolar, strMessageContent)
    ELSE IF strOpCode = D_USR_FLD THEN FldBranch(strMessageContent)
    ELSE IF strOpCode = HISTORY THEN HistoryBranch(strHistoryIn)
    ELSE UsrMsgBranch(strMessageContent)

\* the if / else if chain on strOpCode
Dispatch(strOpCode, strMessageContent, strHistoryIn) ==
    IF strOpCode = RUN_NO THEN IntBranch(S_RunNumber, S_InvalidRun, strMessageContent)
    ELSE IF strOpCode = POLAR_NO
    THEN IntBranch(S_PolarNumber, S_InvalidPolar, strMessageContent)
    ELSE IF strOpCode = USR_MSG THEN UsrMsgBranch(strMessageContent)
    ELSE IF strOpCode = D_USR_FLD THEN FldBranch(strMessageContent)
    ELSE IF strOpCode = HISTORY THEN HistoryBranch(strHistoryIn)
    ELSE [out |-> <<>>, bRecognised |-> FALSE, returned |-> FALSE]

\* the variant that strips every trailing '#'
RECURSIVE MessageContent_StripAll(_)
MessageContent_StripAll(strInputIn) ==
    IF Len(strInputIn) > 10 /\ back(strInputIn) = "#"
    THEN MessageContent_StripAll(pop_back(strInputIn))
    ELSE substrFrom(strInputIn, 10)

\* strMessageContent: everything past the opcode, less one trailing '#'
MessageContent(strInputIn) ==
    LET strRest == substrFrom(strInputIn, 10)
    IN  IF strRest # <<>> /\ back(strRest) = "#" THEN pop_back(strRest) ELSE strRest

\* the variant that does not test the sentinel
Framed_NoSentinel(strInputIn) == Len(strInputIn) >= 11

\* the input passes both guards of parseCommand
Framed(strInputIn) ==
    ~(strInputIn = <<>> \/ back(strInputIn) # "#") /\ Len(strInputIn) >= 11

\* the exception std::stoi(s) throws, "none" when it returns
stoiException(s) ==
    LET t  == SkipSpace(s)
        ds == DigitRun(DropSign(t))
        v  == IF HasSign(t) /\ Head(t) = "-" THEN -DecValue(ds) ELSE DecValue(ds)
    IN  IF ds = <<>> THEN "invalid_argument"
        ELSE IF v < INT_MIN \/ v > INT_MAX THEN "out_of_range"
        ELSE "none"

\* the exception std::stod(s) throws, "none" when it returns
stodException(s) == IF stod(s).ok THEN "none" ELSE "invalid_argument"

\* the exception s.substr(pos) or s.substr(pos, n) throws
substrException(s, pos) == IF pos > Len(s) THEN "out_of_range" ELSE "none"

\* the variant whose handlers catch std::invalid_argument only
Caught_InvalidArgumentOnly(what) == what = "invalid_argument"

\* catch (const std::exception&): both exceptions of the conversions derive
\* from std::exception
Caught(what) == what \in {"invalid_argument", "out_of_range"}

\* an exception leaves parseCommand: one thrown outside the try blocks, or
\* one thrown inside a try block that its handler does not catch
Escapes(strInputIn) ==
    /\ Framed(strInputIn)
    /\ LET strOpCode == substr(strInputIn, 0, 10)
           strMessageContent == MessageContent(strInputIn)
           vecTokens == Tokenise(strMessageContent)
       IN  \/ substrException(strInputIn, 0) # "none"
           \/ substrException(strInputIn, 10) # "none"
           \/ /\ strOpCode \in {RUN_NO, POLAR_NO}
              /\ stoiException(strMessageContent) # "none"
              /\ ~Caught(stoiException(strMessageContent))
           \/ /\ strOpCode = D_USR_FLD
              /\ Len(vecTokens) % 2 = 0
              /\ \E i \in 0..(Len(vecTokens) - 2) :
                    /\ i % 2 = 0
                    /\ Len(vecTokens[i + 1]) <= 15
                    /\ stodException(vecTokens[i + 2]) # "none"
                    /\ ~Caught(stodException(vecTokens[i + 2]))

\* the variant that records the opcode of every framed message
parseCommand_RecordAll(strInputIn, strHistoryIn) ==
    IF ~Framed(strInputIn) THEN [strHistory |-> strHistoryIn, out |-> <<>>]
    ELSE LET strOpCode == substr(strInputIn, 0, 10)
             r == Dispatch(strOpCode, MessageContent(strInputIn), strHistoryIn)
         IN  [strHistory |-> IF ~r.returned
                             THEN updateHistory(strHistoryIn, strOpCode)
                             ELSE strHistoryIn,
              out |-> r.out]

\* the variant that does not record an opcode equal to the newest entry
parseCommand_SkipRepeat(strInputIn, strHistoryIn) ==
    IF ~Framed(strInputIn) THEN [strHistory |-> strHistoryIn, out |-> <<>>]
    ELSE LET strOpCode == substr(strInputIn, 0, 10)
             r == Dispatch(strOpCode, MessageContent(strInputIn), strHistoryIn)
         IN  [strHistory |-> IF r.bRecognised /\ ~r.returned
                                  /\ ~(strHistoryIn # <<>> /\ strHistoryIn[1] = strOpCode)
                             THEN updateHistory(strHistoryIn, strOpCode)
                             ELSE strHistoryIn,
              out |-> r.out]

\* parseCommand(strInput, strHistory): the history it leaves and the lines it
\* writes
parseCommand(strInputIn, strHistoryIn) ==
    IF ~Framed(strInputIn) THEN [strHistory |-> strHistoryIn, out |-> <<>>]
    ELSE LET strOpCode == substr(strInputIn, 0, 10)
             r == Dispatch(strOpCode, MessageContent(strInputIn), strHistoryIn)
         IN  [strHistory |-> IF r.bRecognised /\ ~r.returned
                             THEN updateHistory(strHistoryIn, strOpCode)
                             ELSE strHistoryIn,
              out |-> r.out]

----------------------------------------------------------------------------
(* Inputs *)

\* all sequences over S of length at most n
SeqsUpTo(S, n) == UNION {[1..k -> S] : k \in 0..n}

\* the unknown opcode of main's failsafe test
UNKNOWN == <<"U","N","K","N","O","W","N","_","_","_">>

\* what an interactive line starts with: an opcode, an unknown or truncated
\* opcode, or nothing
Prefixes ==
    {RUN_NO, POLAR_NO, USR_MSG, D_USR_FLD, HISTORY, UNKNOWN,
     SubSeq(RUN_NO, 1, 9), <<>>}

\* the lines std::getline may deliver: a prefix, a short payload and the
\* sentinel or not
Inputs ==
    {p \o x \o t : p \in Prefixes,
                   x \in SeqsUpTo({"1", "#"}, MaxPayloadLen),
                   t \in {<<>>, <<"#">>}} \ {EXIT}

\* the data messages of the scripted driver: every data opcode, the integer
\* ones with a valid and an invalid payload, D_USR_FLD_ with one pair and
\* with a lone token
DataInputs ==
    {RUN_NO \o <<"1", "#">>, POLAR_NO \o <<"x", "#">>, USR_MSG \o <<"#">>,
     D_USR_FLD \o <<"p", ",", "1", "#">>, D_USR_FLD \o <<"p", "#">>}

\* histories the program reaches, for the single-call specifications: empty,
\* partly filled, full
SampleHistories ==
    {<<>>, <<USR_MSG, RUN_NO>>,
     <<D_USR_FLD, RUN_NO, POLAR_NO, USR_MSG, D_USR_FLD>>}

\* integer messages: RUN_NO____ or POLAR_NO__, then optional white space, an
\* optional sign, up to MaxDigits digits, something after the digits or
\* nothing, and the sentinel
IntInputs ==
    {op \o lead \o sign \o ds \o trail \o <<"#">> :
        op \in {RUN_NO, POLAR_NO},
        lead \in {<<>>, <<" ">>},
        sign \in {<<>>, <<"-">>, <<"+">>},
        ds \in SeqsUpTo({"0", "1", "2", "3"}, MaxDigits),
        trail \in {<<>>, <<"a">>, <<"#", "3">>, <<" ">>}}

\* the RUN_NO____ message of every int, written in decimal
RoundTripInputs ==
    {RUN_NO \o IntToString(n) \o <<"#">> : n \in INT_MIN..INT_MAX}

\* parameter names of 15 and of 16 characters
Name15 == [i \in 1..15 |-> "n"]
Name16 == [i \in 1..16 |-> "m"]

\* what stands between two commas of a D_USR_FLD_ payload: nothing, a short
\* name (no number), a name at and past the length limit, a number, a number
\* followed by a letter
FieldTokens ==
    {<<>>, <<"p">>, Name15, Name16, <<"1", ".", "5", "0">>, <<"2", "x">>}

\* the fields joined by commas
RECURSIVE Join(_)
Join(fields) ==
    IF fields = <<>> THEN <<>>
    ELSE IF Len(fields) = 1 THEN fields[1]
    ELSE fields[1] \o <<",">> \o Join(Tail(fields))

\* parameter messages: D_USR_FLD_, up to MaxFields fields and the sentinel
FldInputs ==
    {D_USR_FLD \o Join(fields) \o <<"#">> :
        fields \in SeqsUpTo(FieldTokens, MaxFields)}

\* free-text messages: USR_MSG___, a short text with commas, sentinels and
\* blanks in it, and the sentinel
MsgInputs ==
    {USR_MSG \o x \o <<"#">> : x \in SeqsUpTo({"h", ",", "#", " "}, MaxPayloadLen)}

\* every input of the model
AllInputs == Inputs \cup IntInputs \cup RoundTripInputs \cup FldInputs \cup MsgInputs

----------------------------------------------------------------------------
(* State machine *)

Init ==
    /\ strHistory = <<>>
    /\ strInput = <<>>
    /\ histBefore = <<>>
    /\ out = <<>>
    /\ log = <<>>
    /\ pc = "read"

\* main hands a string to parseCommand: a canned message or a line read by
\* std::getline that is not EXIT
ReadLine ==
    /\ pc = "read"
    /\ \E in \in Inputs :
          strInput' = in
    /\ histBefore' = strHistory
    /\ out' = <<>>
    /\ pc' = "entry"
    /\ UNCHANGED <<strHistory, log>>

\* the line read is EXIT: main leaves its loop
Exit ==
    /\ pc = "read"
    /\ pc' = "exit"
    /\ UNCHANGED <<strHistory, strInput, histBefore, out, log>>

\* one call of parseCommand, from entry to return, or to the exception that
\* leaves it: main has no handler, so the program ends there, strHistory as
\* it was (the record step is the last one; the lines written before the
\* throw are not kept in out)
Call ==
    /\ pc = "entry"
    /\ IF Escapes(strInput)
       THEN /\ pc' = "thrown"
            /\ UNCHANGED <<strHistory, out>>
       ELSE /\ strHistory' = parseCommand(strInput, strHistory).strHistory
            /\ out' = parseCommand(strInput, strHistory).out
            /\ pc' = "returned"
    /\ UNCHANGED <<strInput, histBefore, log>>

\* parseCommand has returned: main goes on to its next statement
Return ==
    /\ pc = "returned"
    /\ strInput' = <<>>
    /\ histBefore' = strHistory
    /\ out' = <<>>
    /\ pc' = "read"
    /\ UNCHANGED <<strHistory, log>>

Next == ReadLine \/ Exit \/ Call \/ Return

Spec == Init /\ [][Next]_vars

\* The scripted driver, as the canned sequence of main: data messages, with
\* a HISTORY___# query wherever wanted.

SendData ==
    /\ pc = "read"
    /\ Len(log) < MaxData
    /\ \E in \in DataInputs :
          /\ strInput' = in
          /\ log' = Append(log, in)
    /\ histBefore' = strHistory
    /\ out' = <<>>
    /\ pc' = "entry"
    /\ UNCHANGED strHistory

SendQuery ==
    /\ pc = "read"
    /\ strInput' = HISTORY \o <<"#">>
    /\ histBefore' = strHistory
    /\ out' = <<>>
    /\ pc' = "entry"
    /\ UNCHANGED <<strHistory, log>>

NextScript == SendData \/ SendQuery \/ Call \/ Return

SpecScript == Init /\ [][NextScript]_vars

\* One call of parseCommand on an integer message, on a parameter message

InitInt ==
    /\ strHistory \in SampleHistories
    /\ strInput \in IntInputs \cup RoundTripInputs
    /\ histBefore = strHistory
    /\ out = <<>>
    /\ log = <<>>
    /\ pc = "entry"

SpecInt == InitInt /\ [][Call]_vars

InitFld ==
    /\ strHistory \in SampleHistories
    /\ strInput \in FldInputs
    /\ histBefore = strHistory
    /\ out = <<>>
    /\ log = <<>>
    /\ pc = "entry"

SpecFld == InitFld /\ [][Call]_vars

\* One call of parseCommand on any input of the model

InitCall ==
    /\ strHistory \in SampleHistories
    /\ strInput \in AllInputs
    /\ histBefore = strHistory
    /\ out = <<>>
    /\ log = <<>>
    /\ pc = "entry"

SpecCall == InitCall /\ [][Call]_vars

----------------------------------------------------------------------------
(* Vocabulary of the properties, stated on the message text alone *)

DataOpcodes == {RUN_NO, POLAR_NO, USR_MSG, D_USR_FLD}
KnownOpcodes == DataOpcodes \cup {HISTORY}

\* a well-framed message: non-empty, ending in '#', at least 11 characters
WellFramed(msg) == msg # <<>> /\ msg[Len(msg)] = "#" /\ Len(msg) >= 11

\* the opcode and the payload of a well-framed message
OpcodeOf(msg) == [i \in 1..10 |-> msg[i]]
PayloadOf(msg) == [i \in 1..(Len(msg) - 11) |-> msg[i + 10]]

\* the first n entries of a sequence
FirstN(q, n) == [i \in 1..(IF Len(q) < n THEN Len(q) ELSE n) |-> q[i]]

\* a sequence, last entry first
Reversed(q) == [i \in 1..Len(q) |-> q[Len(q) + 1 - i]]

\* the positions of t where a non-empty comma-separated token starts
TokenStarts(t) == {i \in 1..Len(t) : t[i] # "," /\ (i = 1 \/ t[i - 1] = ",")}

\* the number of non-empty comma-separated tokens of t
TokenCount(t) == Cardinality(TokenStarts(t))

\* a parseCommand call on a well-framed message has just returned
Returned == pc = "returned" /\ WellFramed(strInput)

----------------------------------------------------------------------------
(* Properties *)

\* C1: after any sequence of parseCommand calls from the empty history, the
\* history holds at most 5 entries.
C1_HistoryAtMostFive == Len(strHistory) <= 5

\* C1 witness: a call has recorded an opcode on a history that already held 5.
C1_Witness ==
    /\ pc = "returned"
    /\ Len(histBefore) = 5
    /\ strHistory # histBefore
    /\ Len(strHistory) = 5

\* C2: every entry of the history is one of the four data opcodes; HISTORY___
\* and unrecognised prefixes never appear in it.
C2_OnlyDataOpcodes == \A i \in 1..Len(strHistory) : strHistory[i] \in DataOpcodes

\* C2 witness: a HISTORY___ query has returned on a history that holds all
\* four data opcodes.
C2_Witness ==
    /\ Returned
    /\ OpcodeOf(strInput) = HISTORY
    /\ {strHistory[i] : i \in 1..Len(strHistory)} = DataOpcodes

\* the opcodes of the messages of a log, in order
OpcodesOf(msgs) == [i \in 1..Len(msgs) |-> OpcodeOf(msgs[i])]

\* a D_USR_FLD_ message with an odd number of non-empty tokens
OddParameterList(msg) ==
    OpcodeOf(msg) = D_USR_FLD /\ TokenCount(PayloadOf(msg)) % 2 = 1

\* C3 as stated: after the data messages of the log, with opcodes o1..ok, a
\* HISTORY___# query emits ok, o(k-1), ..., the newest min(k,5) of them.
C3_AsStated ==
    (Returned /\ strInput = HISTORY \o <<"#">>)
        => out = FirstN(Reversed(OpcodesOf(log)), 5)

\* C3 amended: the same, o1..ok being the opcodes of the data messages of the
\* log that are not a D_USR_FLD_ message with an odd number of non-empty
\* tokens.
C3_HistoryOrdering ==
    (Returned /\ strInput = HISTORY \o <<"#">>)
        => out = FirstN(Reversed(OpcodesOf(
                     SelectSeq(log, LAMBDA msg : ~OddParameterList(msg)))), 5)

\* C3 witness: the query has returned after more than 5 recorded messages,
\* the first of which differs from everything shown.
C3_Witness ==
    /\ Returned
    /\ strInput = HISTORY \o <<"#">>
    /\ Len(SelectSeq(log, LAMBDA msg : ~OddParameterList(msg))) > 5
    /\ Len(out) = 5
    /\ \A i \in 1..5 : out[i] # OpcodeOf(log[1])
    /\ out[1] # out[2]

\* C4: parsing an input that is empty, or does not end in '#', or is shorter
\* than 11 characters leaves the history as it was and writes nothing.
C4_UnframedIsNoOp ==
    (pc = "returned" /\ ~WellFramed(strInput))
        => (strHistory = histBefore /\ out = <<>>)

\* C4 witness: a data message that lacks only its sentinel has been parsed on
\* a non-empty history.
C4_Witness ==
    /\ pc = "returned"
    /\ strInput = RUN_NO \o <<"1">>
    /\ histBefore # <<>>

\* C5: a well-framed message whose first 10 characters are none of the five
\* opcodes writes nothing and leaves the history as it was.
C5_UnknownIsNoOp ==
    (Returned /\ OpcodeOf(strInput) \notin KnownOpcodes)
        => (out = <<>> /\ strHistory = histBefore)

\* C5 witness: an unknown opcode with a payload has been parsed on a
\* non-empty history.
C5_Witness ==
    /\ Returned
    /\ OpcodeOf(strInput) \notin KnownOpcodes
    /\ PayloadOf(strInput) # <<>>
    /\ histBefore # <<>>

\* C6: a well-framed HISTORY___ message, whatever its payload, leaves the
\* history as it was, and a HISTORY___# parsed next writes the same lines.
C6_HistoryTransparent ==
    (Returned /\ OpcodeOf(strInput) = HISTORY)
        => /\ strHistory = histBefore
           /\ parseCommand(HISTORY \o <<"#">>, strHistory).out = out

\* C6 witness: a HISTORY___ message with a payload has been parsed on a full
\* history.
C6_Witness ==
    /\ Returned
    /\ OpcodeOf(strInput) = HISTORY
    /\ PayloadOf(strInput) # <<>>
    /\ Len(histBefore) = 5

\* a call on a well-framed RUN_NO____ or POLAR_NO__ message has returned
ReturnedInt == Returned /\ OpcodeOf(strInput) \in {RUN_NO, POLAR_NO}

\* the Invalid line prefix of the integer opcode of the current message
InvalidPrefix == IF OpcodeOf(strInput) = RUN_NO THEN S_InvalidRun ELSE S_InvalidPolar

\* C7: for RUN_NO____ and POLAR_NO__, when the payload fails integer decoding
\* the only line written is "Invalid Run number: " (or "Invalid Polar
\* number: ") followed by the raw payload, and the opcode is still pushed to
\* the front of the history.
C7_InvalidIntegerRecorded ==
    (ReturnedInt /\ ~stoi(PayloadOf(strInput)).ok)
        => /\ out = <<InvalidPrefix \o PayloadOf(strInput)>>
           /\ strHistory = FirstN(<<OpcodeOf(strInput)>> \o histBefore, 5)

\* C7 witness: a POLAR_NO__ message whose payload holds no number has written
\* its Invalid line and has been recorded on a full history.
C7_Witness ==
    /\ ReturnedInt
    /\ OpcodeOf(strInput) = POLAR_NO
    /\ PayloadOf(strInput) = <<"-", "a">>
    /\ out = <<S_InvalidPolar \o <<"-", "a">>>>
    /\ Len(histBefore) = 5
    /\ strHistory[1] = POLAR_NO
    /\ strHistory[2] = histBefore[1]

\* the whole of t is an optional sign followed by at least one decimal digit
StrictInteger(t) ==
    LET first == IF t # <<>> /\ t[1] \in {"+", "-"} THEN 2 ELSE 1
    IN  /\ first <= Len(t)
        /\ \A i \in first..Len(t) : isdigit(t[i])

\* C8: integer decoding is a strict full-string parse: whenever the payload
\* of a RUN_NO____ or POLAR_NO__ message is not, as a whole, an optional sign
\* followed by decimal digits, the Invalid line is written and not the
\* success line.
C8_StrictIntegerParse ==
    (ReturnedInt /\ ~StrictInteger(PayloadOf(strInput)))
        => out = <<InvalidPrefix \o PayloadOf(strInput)>>

\* a call on a well-framed D_USR_FLD_ message has returned
ReturnedFld == Returned /\ OpcodeOf(strInput) = D_USR_FLD

\* C9: a well-framed D_USR_FLD_ message whose payload has an odd number of
\* non-empty comma-separated tokens writes nothing, not even the header, and
\* leaves the history as it was.
C9_OddListIsSilent ==
    (ReturnedFld /\ TokenCount(PayloadOf(strInput)) % 2 = 1)
        => (out = <<>> /\ strHistory = histBefore)

\* C9 witness: a D_USR_FLD_ message with 3 non-empty tokens and an empty one
\* has been parsed on a non-empty history.
C9_Witness ==
    /\ ReturnedFld
    /\ TokenCount(PayloadOf(strInput)) = 3
    /\ Len(PayloadOf(strInput)) > 0
    /\ PayloadOf(strInput)[1] = ","
    /\ histBefore # <<>>

\* the k-th position where a non-empty token of t starts
NthStart(t, k) ==
    CHOOSE i \in TokenStarts(t) : Cardinality({j \in TokenStarts(t) : j < i}) = k - 1

\* the token of t that starts at position i
TokenFrom(t, i) ==
    LET j == CHOOSE j \in i..Len(t) :
                 /\ \A m \in i..j : t[m] # ","
                 /\ (j = Len(t) \/ t[j + 1] = ",")
    IN  [m \in 1..(j - i + 1) |-> t[i + m - 1]]

\* the non-empty comma-separated tokens of t, in payload order
TokensOf(t) == [k \in 1..TokenCount(t) |-> TokenFrom(t, NthStart(t, k))]

\* the line the parameter pair (name, value) is to produce
ExpectedPairLine(name, value) ==
    IF Len(name) > 15 THEN S_NameTooLong \o name
    ELSE IF stod(value).ok THEN name \o S_Equals \o DoubleToString(stod(value))
    ELSE S_InvalidValue \o name

\* C10: a well-framed D_USR_FLD_ message with an even number 2n of non-empty
\* tokens writes "Parameters:" and then exactly n lines, one per pair in
\* payload order: "Parameter name too long: <name>" for a name longer than 15
\* characters, else "<name> = <value>" when the value decodes as a number,
\* else "Invalid parameter value for parameter: <name>"; a pair in error does
\* not stop the pairs after it, and D_USR_FLD_ is recorded.
C10_EvenListLines ==
    (ReturnedFld /\ TokenCount(PayloadOf(strInput)) % 2 = 0)
        => LET toks == TokensOf(PayloadOf(strInput))
           IN  /\ out = <<S_Parameters>>
                        \o [k \in 1..(Len(toks) \div 2) |->
                               ExpectedPairLine(toks[2 * k - 1], toks[2 * k])]
               /\ strHistory = FirstN(<<D_USR_FLD>> \o histBefore, 5)

\* C10 witness: a message of two pairs, the first with a name of 16
\* characters and the second with a name of 15 and the value 1.50, has written
\* the header, the too-long line and the line of the second pair, and has
\* been recorded on a full history.
C10_Witness ==
    /\ ReturnedFld
    /\ TokensOf(PayloadOf(strInput)) = <<Name16, <<"p">>, Name15, <<"1", ".", "5", "0">>>>
    /\ out = <<S_Parameters, S_NameTooLong \o Name16,
               Name15 \o S_Equals \o <<"1", ".", "5">>>>
    /\ Len(histBefore) = 5
    /\ strHistory[1] = D_USR_FLD

\* a D_USR_FLD_ payload with an even number of non-empty tokens, every name
\* among them longer than 15 characters
EveryPairSkipped(t) ==
    /\ TokenCount(t) % 2 = 0
    /\ \A k \in 1..(TokenCount(t) \div 2) : Len(TokensOf(t)[2 * k - 1]) > 15

\* C11 as stated: a well-framed D_USR_FLD_ message with an even token count
\* in which every name is longer than 15 characters writes only the header
\* "Parameters:" and is recorded.
C11_AsStated ==
    (ReturnedFld /\ EveryPairSkipped(PayloadOf(strInput)))
        => /\ out = <<S_Parameters>>
           /\ strHistory = FirstN(<<D_USR_FLD>> \o histBefore, 5)

\* C11 amended: such a message writes the header "Parameters:" followed by
\* one line "Parameter name too long: <name>" per pair, in payload order, and
\* no "<name> = <value>" line, and is recorded.
C11_SkippedPairsReported ==
    (ReturnedFld /\ EveryPairSkipped(PayloadOf(strInput)))
        => LET toks == TokensOf(PayloadOf(strInput))
           IN  /\ out = <<S_Parameters>>
                        \o [k \in 1..(Len(toks) \div 2) |->
                               S_NameTooLong \o toks[2 * k - 1]]
               /\ strHistory = FirstN(<<D_USR_FLD>> \o histBefore, 5)

\* C11 witness: a message of two pairs, both names of 16 characters and the
\* first value a number, has written three lines and has been recorded on a
\* non-empty history.
C11_Witness ==
    /\ ReturnedFld
    /\ TokensOf(PayloadOf(strInput))
           = <<Name16, <<"1", ".", "5", "0">>, Name16, <<"p">>>>
    /\ Len(out) = 3
    /\ histBefore # <<>>
    /\ strHistory[1] = D_USR_FLD

\* C12: for every int n, both extremes included, parsing RUN_NO____ followed
\* by n in decimal and '#' writes exactly "Run number: n" and records
\* RUN_NO____.
C12_IntegerRoundTrip ==
    \A n \in INT_MIN..INT_MAX :
        (ReturnedInt /\ strInput = RUN_NO \o IntToString(n) \o <<"#">>)
            => /\ out = <<S_RunNumber \o IntToString(n)>>
               /\ strHistory = FirstN(<<RUN_NO>> \o histBefore, 5)

\* C12 witness: the most negative int has been parsed and written back, and
\* recorded on a full history.
C12_Witness ==
    /\ ReturnedInt
    /\ strInput = RUN_NO \o IntToString(INT_MIN) \o <<"#">>
    /\ out = <<S_RunNumber \o IntToString(INT_MIN)>>
    /\ Len(PayloadOf(strInput)) = 3
    /\ Len(histBefore) = 5
    /\ strHistory[1] = RUN_NO

\* C13: every parseCommand call, for any input and any history, completes
\* normally: no exception of a conversion or of substr leaves it.
C13_NoExceptionEscapes == pc # "thrown"

\* C13 witness: std::stoi has thrown std::out_of_range on a RUN_NO____
\* payload, and the call has returned with the Invalid line written.
C13_Witness ==
    /\ ReturnedInt
    /\ OpcodeOf(strInput) = RUN_NO
    /\ stoiException(PayloadOf(strInput)) = "out_of_range"
    /\ out = <<S_InvalidRun \o PayloadOf(strInput)>>

\* the call that has returned was on a message that is recorded: well
\* framed, a data opcode, and no D_USR_FLD_ with an odd token list
Recorded ==
    /\ Returned
    /\ OpcodeOf(strInput) \in DataOpcodes
    /\ ~OddParameterList(strInput)

\* C14: a call that records opcode op on history h leaves the first 5
\* entries of <op> followed by h: op is the new front, the entries of h follow
\* in their order, and the last entry of h is dropped if and only if h held 5.
C14_RecordIsPushFrontEvictBack ==
    Recorded
        => /\ strHistory = FirstN(<<OpcodeOf(strInput)>> \o histBefore, 5)
           /\ strHistory[1] = OpcodeOf(strInput)
           /\ Len(strHistory) = (IF Len(histBefore) = 5 THEN 5 ELSE Len(histBefore) + 1)
           /\ \A i \in 1..(Len(strHistory) - 1) : strHistory[i + 1] = histBefore[i]

\* C14 witness: an opcode has been recorded on a full history whose two
\* oldest entries differ and whose newest entry is another opcode.
C14_Witness ==
    /\ Recorded
    /\ Len(histBefore) = 5
    /\ histBefore[5] # histBefore[4]
    /\ histBefore[1] # OpcodeOf(strInput)
    /\ strHistory[5] = histBefore[4]

\* C15: only one sentinel is stripped.  The payload of a well-framed input is
\* what stands between the opcode and the final '#': USR_MSG___ writes exactly
\* that (so an input ending in "##" writes a line ending in '#'), an integer
\* opcode followed by "##" quotes the payload "#" in its Invalid line, and an
\* input of exactly 11 characters is dispatched with the empty payload.
C15_OneSentinelStripped ==
    Returned
        => /\ OpcodeOf(strInput) = USR_MSG => out = <<PayloadOf(strInput)>>
           /\ (OpcodeOf(strInput) \in {RUN_NO, POLAR_NO} /\ Len(strInput) = 12
                  /\ strInput[11] = "#")
                 => out = <<InvalidPrefix \o <<"#">>>>
           /\ Len(strInput) = 11
                 => /\ OpcodeOf(strInput) = RUN_NO => out = <<S_InvalidRun>>
                    /\ OpcodeOf(strInput) = POLAR_NO => out = <<S_InvalidPolar>>
                    /\ OpcodeOf(strInput) = USR_MSG => out = <<<<>>>>
                    /\ OpcodeOf(strInput) = D_USR_FLD => out = <<S_Parameters>>
                    /\ OpcodeOf(strInput) \in DataOpcodes
                          => strHistory = FirstN(<<OpcodeOf(strInput)>> \o histBefore, 5)

\* C15 witness: USR_MSG___1## has been parsed and has written the line "1#".
C15_Witness ==
    /\ Returned
    /\ strInput = USR_MSG \o <<"1", "#", "#">>
    /\ out = <<<<"1", "#">>>>

\* the integer that a payload of an optional sign and digits denotes
SignedValue(t) ==
    IF t[1] = "-" THEN -DecValue(Tail(t))
    ELSE IF t[1] = "+" THEN DecValue(Tail(t))
    ELSE DecValue(t)

\* C16: for RUN_NO____ and POLAR_NO__, a payload of sign and digits whose
\* value lies outside the int range writes the Invalid line with the raw
\* payload and nothing else, so no wrapped or truncated number is printed,
\* and the opcode is still recorded.
C16_OutOfRangeIsInvalid ==
    (ReturnedInt /\ StrictInteger(PayloadOf(strInput))
        /\ (SignedValue(PayloadOf(strInput)) < INT_MIN
               \/ SignedValue(PayloadOf(strInput)) > INT_MAX))
        => /\ out = <<InvalidPrefix \o PayloadOf(strInput)>>
           /\ strHistory = FirstN(<<OpcodeOf(strInput)>> \o histBefore, 5)

\* C16 witness: POLAR_NO__ with the payload INT_MAX + 1 has written its
\* Invalid line and has been recorded on a full history.
C16_Witness ==
    /\ ReturnedInt
    /\ OpcodeOf(strInput) = POLAR_NO
    /\ StrictInteger(PayloadOf(strInput))
    /\ SignedValue(PayloadOf(strInput)) = INT_MAX + 1
    /\ out = <<S_InvalidPolar \o PayloadOf(strInput)>>
    /\ Len(histBefore) = 5
    /\ strHistory[1] = POLAR_NO

\* the parameter message that carries exactly the non-empty tokens of the
\* payload t, separated by single commas
Canonical(t) == D_USR_FLD \o Join(TokensOf(t)) \o <<"#">>

\* C17: for D_USR_FLD_, empty tokens are dropped wherever they occur: the
\* output and the decision to record are those of the message that carries
\* only the non-empty tokens, so they depend on nothing but that sequence.
C17_EmptyTokensDropped ==
    ReturnedFld
        => /\ out = parseCommand(Canonical(PayloadOf(strInput)), histBefore).out
           /\ strHistory
                 = parseCommand(Canonical(PayloadOf(strInput)), histBefore).strHistory
           /\ TokenCount(PayloadOf(strInput)) % 2 = 1
                 => out = <<>> /\ strHistory = histBefore

\* C17 witness: the payload ",p,,1.50", with a leading and a repeated comma,
\* has produced the lines of the list p,1.50 and has been recorded.
C17_Witness ==
    /\ ReturnedFld
    /\ PayloadOf(strInput) = <<",", "p", ",", ",", "1", ".", "5", "0">>
    /\ out = <<S_Parameters, <<"p", " ", "=", " ", "1", ".", "5">>>>
    /\ strHistory = FirstN(<<D_USR_FLD>> \o histBefore, 5)

\* a call on a well-framed USR_MSG___ message has ended, by a return or by
\* an exception
EndedMsg ==
    /\ pc \in {"returned", "thrown"}
    /\ WellFramed(strInput)
    /\ OpcodeOf(strInput) = USR_MSG

\* C18: a well-framed USR_MSG___ message has no error path: whatever the
\* payload, the call returns, has written exactly one line, the payload
\* verbatim, and has recorded USR_MSG___ at the front of the history.
C18_UserMessageVerbatim ==
    EndedMsg
        => /\ pc = "returned"
           /\ out = <<PayloadOf(strInput)>>
           /\ strHistory = FirstN(<<USR_MSG>> \o histBefore, 5)
           /\ strHistory[1] = USR_MSG

\* C18 witness: the USR_MSG___ message with the payload ",#" has written that
\* payload as its one line and has been recorded on a full history.
C18_Witness ==
    /\ EndedMsg
    /\ PayloadOf(strInput) = <<",", "#">>
    /\ out = <<PayloadOf(strInput)>>
    /\ Len(histBefore) = 5
    /\ strHistory[1] = USR_MSG

\* a payload without a non-empty token: empty, or made of commas only
NoToken(t) == \A i \in 1..Len(t) : t[i] = ","

\* C19: a well-framed D_USR_FLD_ message whose payload has no non-empty
\* token, being empty or made of commas only, writes the single line
\* "Parameters:" and records D_USR_FLD_.
C19_EmptyListIsEven ==
    (ReturnedFld /\ NoToken(PayloadOf(strInput)))
        => /\ out = <<S_Parameters>>
           /\ strHistory = FirstN(<<D_USR_FLD>> \o histBefore, 5)
           /\ strHistory[1] = D_USR_FLD

\* C19 witness: the D_USR_FLD_ message with the payload ",," has written the
\* header alone and has been recorded on a full history.
C19_Witness ==
    /\ ReturnedFld
    /\ PayloadOf(strInput) = <<",", ",">>
    /\ out = <<S_Parameters>>
    /\ Len(histBefore) = 5
    /\ strHistory[1] = D_USR_FLD

\* an input whose first 10 characters are the HISTORY___ opcode
IsQuery(msg) == Len(msg) >= 10 /\ FirstN(msg, 10) = HISTORY

\* what the same input does on the empty history
OnEmptyHistory == parseCommand(strInput, <<>>)

\* C20: for an input whose opcode is not HISTORY___, the lines written and
\* the decision to record do not depend on the history: on every history
\* the call writes what it writes on the empty history, and it records its
\* opcode exactly if it records it there.
C20_StatelessPerCall ==
    (pc = "returned" /\ ~IsQuery(strInput))
        => /\ out = OnEmptyHistory.out
           /\ strHistory = IF OnEmptyHistory.strHistory # <<>>
                           THEN FirstN(OnEmptyHistory.strHistory \o histBefore, 5)
                           ELSE histBefore

\* C20 witness: a data message has written a line and has been recorded on a
\* history whose newest entry was already its own opcode.
C20_Witness ==
    /\ Returned
    /\ OpcodeOf(strInput) \in DataOpcodes
    /\ histBefore # <<>>
    /\ histBefore[1] = OpcodeOf(strInput)
    /\ out # <<>>
    /\ out = OnEmptyHistory.out
    /\ Len(strHistory) = Len(histBefore) + 1

====
